---- MODULE Spec2Model ----
(***************************************************************************)
(* Model of text_generation/datasetclasses.py: the E2E attribute-string    *)
(* parser, the per-split grouping loaders of E2E and WikiData, and the     *)
(* template resolvers.  Python strings that the code inspects character by *)
(* character (meaning representations, keys, values) are sequences of      *)
(* one-character strings; strings the code only passes around (reference   *)
(* texts, templates, file names) are TLA+ strings.                         *)
(***************************************************************************)
EXTENDS Integers, Sequences, FiniteSets, TLC

VARIABLES
    cls,             \* class of the dataset object: "e2e" or "wikidata"
    templates,       \* the attribute self.templates (absent until assigned)
    data,            \* self.data: split name -> sequence of DataEntry
    pc,              \* position of load_from_dir
    splits,          \* the `splits` argument of load_from_dir
    si,              \* index in `splits` of the current iteration of the for loop
    triples_to_lex,  \* the insertion-ordered defaultdict of the current split
    err,             \* the local counter `err`
    csv,             \* split name -> records of the split's source read so far
    log,             \* the aggregate warnings emitted after the record loops
    phase,           \* split name -> "not-loaded" | "loading" | "loaded"
    nread,           \* number of records read during the load
    template_path,   \* argument of the last load_templates call
    mr,              \* the argument of _mr_to_triples
    ret              \* outcome of the last call: return value or exception

vars == <<cls, templates, data, pc, splits, si, triples_to_lex, err, csv, log,
          phase, nread, template_path, mr, ret>>

----------------------------------------------------------------------------
(* Bounds *)

MaxTokens == 3
MaxRows == 3
MaxSplits == 2

----------------------------------------------------------------------------
(* Python str / list primitives used by the code *)

Whitespace == {" "}

\* index of the first occurrence of x in s, 0 when absent (list.index / str.find)
IndexOf(s, x) ==
    IF \E i \in 1..Len(s) : s[i] = x
    THEN CHOOSE i \in 1..Len(s) : s[i] = x /\ \A j \in 1..(i - 1) : s[j] # x
    ELSE 0

\* str.split(sep) for a one-character separator: always at least one part
RECURSIVE str_split(_, _)
str_split(s, sep) ==
    LET i == IndexOf(s, sep)
    IN  IF i = 0 THEN <<s>>
        ELSE <<SubSeq(s, 1, i - 1)>> \o str_split(SubSeq(s, i + 1, Len(s)), sep)

\* str.strip()
strip(s) ==
    LET keep == {i \in 1..Len(s) : s[i] \notin Whitespace}
    IN  IF keep = {} THEN <<>>
        ELSE SubSeq(s, CHOOSE i \in keep : \A j \in keep : i <= j,
                       CHOOSE i \in keep : \A j \in keep : i >= j)

\* s[:-1]
DropLast(s) == SubSeq(s, 1, Len(s) - 1)

\* del s[i]
Del(s, i) == SubSeq(s, 1, i - 1) \o SubSeq(s, i + 1, Len(s))

Return(v) == [ok |-> TRUE, val |-> v]
Raise(e) == [ok |-> FALSE, exc |-> e]

----------------------------------------------------------------------------
(* String literals of the code *)

name == <<"n", "a", "m", "e">>
eatType == <<"e", "a", "t", "T", "y", "p", "e">>
restaurant == <<"r", "e", "s", "t", "a", "u", "r", "a", "n", "t">>
fallback_template == "The <predicate> of <subject> is <object> ."
SplitNames == {"train", "dev", "test"}

DataTriple(s, p, o) == [subj |-> s, pred |-> p, obj |-> o]
DataEntry(triples, lexs) == [triples |-> triples, lexs |-> lexs]

----------------------------------------------------------------------------
(* E2E._mr_to_triples *)

\* items = [x.strip() for x in mr.split(",")]
Items(m) == LET parts == str_split(m, ",") IN [i \in 1..Len(parts) |-> strip(parts[i])]

\* the loop `key, val = item.split("["); val = val[:-1]`: unpacking raises
\* ValueError unless the item splits into exactly two parts
Tokenize(m) ==
    LET items == Items(m)
        parts == [i \in 1..Len(items) |-> str_split(items[i], "[")]
    IN  IF \E i \in 1..Len(items) : Len(parts[i]) # 2
        THEN Raise("ValueError")
        ELSE Return([keys |-> [i \in 1..Len(items) |-> parts[i][1]],
                     vals |-> [i \in 1..Len(items) |-> DropLast(parts[i][2])]])

\* variant of KeyIdx taking the last occurrence instead of the first
KeyIdxLast(keys, k) ==
    IF \E i \in 1..Len(keys) : keys[i] = k
    THEN CHOOSE i \in 1..Len(keys) : keys[i] = k /\ \A j \in (i + 1)..Len(keys) : keys[j] # k
    ELSE 0

\* None if k not in keys else keys.index(k); None is 0
KeyIdx(keys, k) == IndexOf(keys, k)

\* subject selection: the subject and the (keys, vals) left after it
SelectSubject(keys, vals) ==
    LET name_idx == KeyIdx(keys, name)
        eatType_idx == KeyIdx(keys, eatType)
    IN  IF name_idx # 0
        THEN LET ks == Del(keys, name_idx)
                 vs == Del(vals, name_idx)
             IN  IF ks = <<>>
                 THEN [subj |-> vals[name_idx], keys |-> <<eatType>>, vals |-> <<restaurant>>]
                 ELSE [subj |-> vals[name_idx], keys |-> ks, vals |-> vs]
        ELSE IF eatType_idx # 0
        THEN [subj |-> vals[eatType_idx],
              keys |-> Del(keys, eatType_idx), vals |-> Del(vals, eatType_idx)]
        ELSE [subj |-> restaurant, keys |-> keys, vals |-> vals]

_mr_to_triples(m) ==
    LET t == Tokenize(m)
    IN  IF ~t.ok THEN t
        ELSE LET s == SelectSubject(t.val.keys, t.val.vals)
             IN  Return([i \in 1..Len(s.keys) |-> DataTriple(s.subj, s.keys[i], s.vals[i])])

----------------------------------------------------------------------------
(* D2TDataset.load_templates, E2E.get_template, WikiData.get_template *)

None == "None"
NoTemplates == [has |-> FALSE]
Loaded(tab) == [has |-> TRUE, tab |-> tab]

Flat(list) == [kind |-> "list", items |-> list]
ByValue(map) == [kind |-> "dict", items |-> map]

\* `if not templates_filename: return`, else self.templates = json.load(f)
load_templates(tpl, templates_filename, files) ==
    IF templates_filename \in {None, ""} THEN tpl
    ELSE Loaded(files[templates_filename])

\* variant of First taking the last element of a list
FirstLast(entry) ==
    IF entry.kind = "list"
    THEN IF entry.items = <<>> THEN Raise("IndexError")
         ELSE Return(entry.items[Len(entry.items)])
    ELSE Raise("KeyError")

\* templates[0] on the table entry of a predicate: a list yields its first
\* element or IndexError, a JSON object has only string keys: KeyError
First(entry) ==
    IF entry.kind = "list"
    THEN IF entry.items = <<>> THEN Raise("IndexError") ELSE Return(entry.items[1])
    ELSE Raise("KeyError")

E2E_get_template(tpl, triple) ==
    IF ~tpl.has THEN Raise("AttributeError")
    ELSE IF triple.pred \in DOMAIN tpl.tab
    THEN LET tmpls == tpl.tab[triple.pred]
         IN  IF tmpls.kind = "dict" /\ triple.obj \in DOMAIN tmpls.items
             THEN First(Flat(tmpls.items[triple.obj]))
             ELSE First(tmpls)
    ELSE Return(fallback_template)

\* random.sample(population, 1)[0]: every element of a list is a possible
\* result; an empty list raises ValueError, a dict raises TypeError
WikiData_get_template(tpl, triple) ==
    IF ~tpl.has THEN {Raise("AttributeError")}
    ELSE IF triple.pred \in DOMAIN tpl.tab
    THEN LET tmpls == tpl.tab[triple.pred]
         IN  IF tmpls.kind = "dict" THEN {Raise("TypeError")}
             ELSE IF tmpls.items = <<>> THEN {Raise("ValueError")}
             ELSE {Return(tmpls.items[i]) : i \in 1..Len(tmpls.items)}
    ELSE {Return(fallback_template)}

get_template(c, tpl, triple) ==
    IF c = "e2e" THEN {E2E_get_template(tpl, triple)}
    ELSE WikiData_get_template(tpl, triple)

----------------------------------------------------------------------------
(* Inputs *)

food == <<"f", "o", "o", "d">>
area == <<"a", "r", "e", "a">>

Bracket(k, v) == k \o <<"[">> \o v \o <<"]">>

Tokens ==
    { Bracket(name, <<"A">>), Bracket(name, <<"B">>), Bracket(name, <<>>),
      Bracket(eatType, <<"p">>), Bracket(eatType, <<>>),
      Bracket(food, <<"x">>), Bracket(area, <<"y">>),
      Bracket(food, <<"a", "[", "b">>),
      food,
      food \o <<"[", "x">> }

Seps == { <<",">>, <<" ", ",", " ">> }

RECURSIVE Join(_, _)
Join(ts, sep) ==
    IF Len(ts) = 0 THEN <<>>
    ELSE IF Len(ts) = 1 THEN ts[1]
    ELSE ts[1] \o sep \o Join(Tail(ts), sep)

MRs ==
    {<<>>} \cup
    { Join(ts, sep) : ts \in UNION {[1..n -> Tokens] : n \in 1..MaxTokens},
                      sep \in Seps }

TemplateFiles ==
    [ f0 |-> <<>>,
      f1 |-> (food :> Flat(<<"T1", "T2">>)),
      f2 |-> (food :> Flat(<<>>)),
      f3 |-> (food :> ByValue((<<"x">> :> <<"X1", "X2">>) @@ (<<"y">> :> <<>>))),
      f4 |-> (food :> Flat(<<"T3">>)) @@ (area :> ByValue(<<"y">> :> <<"Y1">>)),
      f5 |-> (area :> Flat(<<"">>)) ]

TemplatePaths == {None, ""} \cup DOMAIN TemplateFiles

QueryTriples ==
    { DataTriple(<<"A">>, p, o) : p \in {food, area}, o \in {<<"x">>, <<"y">>, <<"z">>} }

----------------------------------------------------------------------------
(* State after construction: D2TDataset.__init__ *)

NoRet == [op |-> "none"]

New(c) ==
    /\ cls = c
    /\ templates = NoTemplates
    /\ data = [s \in SplitNames |-> <<>>]
    /\ pc = "idle"
    /\ splits = <<>>
    /\ si = 0
    /\ triples_to_lex = <<>>
    /\ err = 0
    /\ csv = [s \in SplitNames |-> <<>>]
    /\ log = <<>>
    /\ phase = [s \in SplitNames |-> "not-loaded"]
    /\ nread = 0
    /\ template_path = "<not called>"
    /\ ret = NoRet

loadVars == <<data, pc, splits, si, triples_to_lex, err, csv, log, phase, nread>>

----------------------------------------------------------------------------
(* Specification of the parser: one call of _mr_to_triples on any record *)

InitParse == New("e2e") /\ mr \in MRs

Parse ==
    /\ ret = NoRet
    /\ ret' = [op |-> "_mr_to_triples", out |-> _mr_to_triples(mr)]
    /\ UNCHANGED <<cls, templates, template_path, mr>>
    /\ UNCHANGED loadVars

NextParse == Parse

SpecParse == InitParse /\ [][NextParse]_vars

----------------------------------------------------------------------------
(* Specification of template resolution: load_templates and get_template  *)
(* called on a fresh dataset object                                        *)

InitTpl == (\E c \in {"e2e", "wikidata"} : New(c)) /\ mr = <<>>

LoadTemplates(path) ==
    /\ templates' = load_templates(templates, path, TemplateFiles)
    /\ template_path' = path
    /\ ret' = [op |-> "load_templates"]
    /\ UNCHANGED <<cls, mr>>
    /\ UNCHANGED loadVars

GetTemplate(triple) ==
    /\ \E out \in get_template(cls, templates, triple) :
          ret' = [op |-> "get_template", triple |-> triple, out |-> out]
    /\ UNCHANGED <<cls, templates, template_path, mr>>
    /\ UNCHANGED loadVars

NextTpl ==
    \/ \E path \in TemplatePaths : LoadTemplates(path)
    \/ \E triple \in QueryTriples : GetTemplate(triple)

SpecTpl == InitTpl /\ [][NextTpl]_vars

----------------------------------------------------------------------------
(* E2E.load_from_dir and WikiData.load_from_dir *)

\* records of {split}.csv: line[0] is the meaning representation, line[1]
\* the reference text
MR_food_area ==
    Join(<<Bracket(name, <<"A">>), Bracket(food, <<"x">>), Bracket(area, <<"y">>)>>, <<",", " ">>)
MR_area_food ==
    Join(<<Bracket(name, <<"A">>), Bracket(area, <<"y">>), Bracket(food, <<"x">>)>>, <<",", " ">>)
MR_name_only == Bracket(name, <<"A">>)
MR_eatType_only == Bracket(eatType, <<"p">>)
MR_no_bracket == food

LoadMRs == {MR_food_area, MR_area_food, MR_name_only, MR_eatType_only, MR_no_bracket}
Texts == {"t1", "t2"}
Lines ==
    [mr : {MR_food_area, MR_area_food}, text : Texts] \cup
    { [mr |-> MR_name_only, text |-> "t2"],
      [mr |-> MR_eatType_only, text |-> "t1"],
      [mr |-> MR_no_bracket, text |-> "t1"] }

\* entry lists returned by _load_jsons_from_dir: tuples (sid, rid, oid)
EntryLists ==
    { <<>>, << <<"Q1", "P1", "Q2">> >>, << <<"Q1", "P1", "Q2">>, <<"Q2", "P2", "Q3">> >> }

LoadPaths == {None, "f1"}

Distinct(sp) == \A i, j \in 1..Len(sp) : i # j => sp[i] # sp[j]
SplitLists == { sp \in UNION {[1..n -> SplitNames] : n \in 0..MaxSplits} : Distinct(sp) }

split == splits[si]

\* variant of NewDict that keeps the accumulator of the previous split
KeepDict(old) == old

\* triples_to_lex = defaultdict(list)
NewDict(old) == <<>>

\* variant of DictAppend that never finds the key
DictAppendNew(d, k, v) == Append(d, [key |-> k, val |-> <<v>>])

\* triples_to_lex[triples].append(lex) on an insertion-ordered dict
DictAppend(d, k, v) ==
    IF \E i \in 1..Len(d) : d[i].key = k
    THEN [i \in 1..Len(d) |-> IF d[i].key = k
                              THEN [key |-> k, val |-> Append(d[i].val, v)]
                              ELSE d[i]]
    ELSE Append(d, [key |-> k, val |-> <<v>>])

\* `not triples or len(triples) == 1`
Corrupted(triples) == Len(triples) = 0 \/ Len(triples) = 1

\* variant of Skipped that skips corrupted samples of every split
SkippedAll(sp, triples) == Corrupted(triples)

\* `if split == "train": continue` under the corrupted-sample test
Skipped(sp, triples) == Corrupted(triples) /\ sp = "train"

\* load_from_dir(path, template_path, splits) up to the head of the for loop
LoadFromDir(path, sp) ==
    /\ pc = "idle"
    /\ templates' = load_templates(templates, path, TemplateFiles)
    /\ template_path' = path
    /\ splits' = sp
    /\ si' = 1
    /\ pc' = "for"
    /\ UNCHANGED <<cls, data, triples_to_lex, err, csv, log, phase, nread, mr, ret>>

\* head of `for split in splits` with a split left: open its source
BeginSplit ==
    /\ pc = "for"
    /\ si <= Len(splits)
    /\ triples_to_lex' = IF cls = "e2e" THEN NewDict(triples_to_lex) ELSE triples_to_lex
    /\ err' = 0
    /\ phase' = [phase EXCEPT ![split] = "loading"]
    /\ pc' = "rows"
    /\ UNCHANGED <<cls, templates, template_path, data, splits, si, csv, log, nread, mr, ret>>

\* head of `for split in splits` with no split left: load_from_dir returns
EndLoad ==
    /\ pc = "for"
    /\ si > Len(splits)
    /\ pc' = "done"
    /\ ret' = [op |-> "load_from_dir", out |-> Return(None)]
    /\ UNCHANGED <<cls, templates, template_path, data, splits, si, triples_to_lex,
                   err, csv, log, phase, nread, mr>>

\* one iteration of `for i, line in enumerate(csv_reader)`
E2E_Line(line) ==
    /\ pc = "rows"
    /\ cls = "e2e"
    /\ nread < MaxRows
    /\ nread' = nread + 1
    /\ csv' = [csv EXCEPT ![split] = Append(@, line)]
    /\ LET r == _mr_to_triples(line.mr)
       IN  IF ~r.ok
           THEN /\ pc' = "raised"
                /\ ret' = [op |-> "load_from_dir", out |-> r]
                /\ UNCHANGED <<err, triples_to_lex>>
           ELSE /\ err' = IF Corrupted(r.val) THEN err + 1 ELSE err
                /\ triples_to_lex' =
                      IF Skipped(split, r.val) THEN triples_to_lex
                      ELSE DictAppend(triples_to_lex, r.val, [text |-> line.text])
                /\ UNCHANGED <<pc, ret>>
    /\ UNCHANGED <<cls, templates, template_path, data, splits, si, log, phase, mr>>

\* the csv reader is exhausted: create the entries, emit the warning
E2E_EndOfFile ==
    /\ pc = "rows"
    /\ cls = "e2e"
    /\ data' = [data EXCEPT ![split] =
                   @ \o [i \in 1..Len(triples_to_lex) |->
                            DataEntry(triples_to_lex[i].key, triples_to_lex[i].val)]]
    /\ log' = Append(log, [split |-> split, err |-> err])
    /\ phase' = [phase EXCEPT ![split] = "loaded"]
    /\ si' = si + 1
    /\ pc' = "for"
    /\ UNCHANGED <<cls, templates, template_path, splits, triples_to_lex, err, csv,
                   nread, mr, ret>>

\* one iteration of `for entry_list in entryset`
WikiData_EntryList(entry_list) ==
    /\ pc = "rows"
    /\ cls = "wikidata"
    /\ nread < MaxRows
    /\ nread' = nread + 1
    /\ csv' = [csv EXCEPT ![split] = Append(@, entry_list)]
    /\ LET triples == [i \in 1..Len(entry_list) |->
                          DataTriple(entry_list[i][1], entry_list[i][2], entry_list[i][3])]
           lexs == entry_list
       IN  IF lexs = <<>>
           THEN err' = err + 1 /\ UNCHANGED data
           ELSE /\ data' = [data EXCEPT ![split] = Append(@, DataEntry(triples, lexs))]
                /\ UNCHANGED err
    /\ UNCHANGED <<cls, templates, template_path, pc, splits, si, triples_to_lex, log,
                   phase, mr, ret>>

\* the entry set is exhausted: warn when entries were skipped
WikiData_EndOfDir ==
    /\ pc = "rows"
    /\ cls = "wikidata"
    /\ log' = IF err > 0 THEN Append(log, [split |-> split, err |-> err]) ELSE log
    /\ phase' = [phase EXCEPT ![split] = "loaded"]
    /\ si' = si + 1
    /\ pc' = "for"
    /\ UNCHANGED <<cls, templates, template_path, data, splits, triples_to_lex, err,
                   csv, nread, mr, ret>>

Init == (\E c \in {"e2e", "wikidata"} : New(c)) /\ mr = <<>>

Next ==
    \/ \E path \in LoadPaths, sp \in SplitLists : LoadFromDir(path, sp)
    \/ BeginSplit
    \/ EndLoad
    \/ \E line \in Lines : E2E_Line(line)
    \/ E2E_EndOfFile
    \/ \E entry_list \in EntryLists : WikiData_EntryList(entry_list)
    \/ WikiData_EndOfDir

Spec == Init /\ [][Next]_vars

----------------------------------------------------------------------------
(* Properties of the parser (SpecParse) *)

Parsed == ret.op = "_mr_to_triples"
Triples == ret.out.val
Keys == Tokenize(mr).val.keys
Vals == Tokenize(mr).val.vals

\* values of the `name` tokens of the record, in token order
RECURSIVE ValuesOf(_, _, _)
ValuesOf(keys, vals, k) ==
    IF keys = <<>> THEN <<>>
    ELSE (IF Head(keys) = k THEN <<Head(vals)>> ELSE <<>>)
         \o ValuesOf(Tail(keys), Tail(vals), k)

NameVals == ValuesOf(Keys, Vals, name)

\* objects of the triples of ts whose predicate is k, in order
RECURSIVE ObjectsOf(_, _)
ObjectsOf(ts, k) ==
    IF ts = <<>> THEN <<>>
    ELSE (IF Head(ts).pred = k THEN <<Head(ts).obj>> ELSE <<>>) \o ObjectsOf(Tail(ts), k)

HasName == Parsed /\ ret.out.ok /\ NameVals # <<>>

\* C4 as stated: for a record with at least one name[...] token (also when
\* the name key occurs more than once) every returned Triple has the value of
\* a name token as subject and no returned Triple has `name` as predicate.
C4_NameNeverPredicate ==
    HasName =>
        \A i \in 1..Len(Triples) :
            /\ \E j \in 1..Len(NameVals) : Triples[i].subj = NameVals[j]
            /\ Triples[i].pred # name

\* C4 amended: for a record with at least one name[...] token every returned
\* Triple has the value of the FIRST name token as subject; only that first
\* pair is removed, so the Triples with predicate `name` are exactly the later
\* name tokens, in order (none when the name key occurs once).
C4_FirstNameIsSubject ==
    HasName =>
        /\ \A i \in 1..Len(Triples) : Triples[i].subj = NameVals[1]
        /\ ObjectsOf(Triples, name) = Tail(NameVals)

C4_Witness ==
    /\ HasName
    /\ Len(NameVals) = 2
    /\ NameVals[1] # NameVals[2]
    /\ \E i \in 1..Len(Triples) : Triples[i].pred = name /\ Triples[i].subj = NameVals[1]

\* C7: every Triple produced by the parser has a non-empty subject, for every
\* parseable record (also with name[] or eatType[]); when the record has
\* neither a name nor an eatType key the subject is the literal "restaurant".
C7_SubjectNeverEmpty ==
    (Parsed /\ ret.out.ok) =>
        /\ \A i \in 1..Len(Triples) : Triples[i].subj # <<>>
        /\ (IndexOf(Keys, name) = 0 /\ IndexOf(Keys, eatType) = 0)
              => \A i \in 1..Len(Triples) : Triples[i].subj = restaurant

\* a trimmed token of the form key[value]
KeyValueForm(item) ==
    /\ Len(item) > 0
    /\ item[Len(item)] = "]"
    /\ IndexOf(item, "[") # 0

\* C8: when every comma-separated token of the record, trimmed, has the form
\* key[value], the parse does not fail, the i-th key is the text before the
\* first `[` of the i-th token and the i-th value is the text between that
\* first `[` and the trailing `]`, also when the value contains a `[`.
C8_SplitOnFirstBracket ==
    (Parsed /\ \A i \in 1..Len(Items(mr)) : KeyValueForm(Items(mr)[i])) =>
        /\ ret.out.ok
        /\ Tokenize(mr).ok
        /\ Len(Keys) = Len(Items(mr))
        /\ \A i \in 1..Len(Items(mr)) :
              LET item == Items(mr)[i]
                  b == IndexOf(item, "[")
              IN  /\ Keys[i] = SubSeq(item, 1, b - 1)
                  /\ Vals[i] = SubSeq(item, b + 1, Len(item) - 1)

----------------------------------------------------------------------------
(* Properties of template resolution (SpecTpl) *)

Resolved == ret.op = "get_template"

\* C1: get_template of either class, called with any Triple on any
\* TemplateTable (empty, a predicate mapped to an empty list, a by-value
\* mapping without the triple's object), raises nothing and returns a
\* non-empty string, the fallback template when the predicate is absent.
C1_ResolutionNeverFails ==
    (Resolved /\ templates.has) =>
        /\ ret.out.ok
        /\ ret.out.val # ""
        /\ ret.triple.pred \notin DOMAIN templates.tab => ret.out.val = fallback_template

\* C2: after load_templates was called with no template path (None or empty)
\* on a dataset that loaded no table before, every get_template call returns
\* the fallback template.
C2_NoPathGivesFallback ==
    (Resolved /\ template_path \in {None, ""} /\ ~templates.has) =>
        ret.out = Return(fallback_template)

\* C9: a call of E2E.get_template whose predicate is in the table leaves the
\* table unchanged and returns the first template of the object's list when
\* the entry is a by-value mapping containing the triple's object, and the
\* first template of the list when the entry is a flat list: the result is a
\* function of the triple and the table.
C9_Step ==
    (/\ cls = "e2e"
     /\ ret'.op = "get_template"
     /\ templates.has
     /\ ret'.triple.pred \in DOMAIN templates.tab)
    =>  LET t == ret'.triple
            e == templates.tab[t.pred]
        IN  /\ templates' = templates
            /\ (e.kind = "dict" /\ t.obj \in DOMAIN e.items /\ e.items[t.obj] # <<>>)
                  => ret'.out = Return(e.items[t.obj][1])
            /\ (e.kind = "list" /\ e.items # <<>>)
                  => ret'.out = Return(e.items[1])

C9_DeterministicFirst == [][C9_Step]_vars

C9_Witness ==
    /\ cls = "e2e"
    /\ Resolved
    /\ templates.has
    /\ ret.triple.pred \in DOMAIN templates.tab
    /\ templates.tab[ret.triple.pred].kind = "dict"
    /\ ret.triple.obj \in DOMAIN templates.tab[ret.triple.pred].items
    /\ Len(templates.tab[ret.triple.pred].items[ret.triple.obj]) > 1
    /\ ret.out = Return(templates.tab[ret.triple.pred].items[ret.triple.obj][1])

----------------------------------------------------------------------------
(* Properties of the loaders (Spec) *)

\* the parse of every record a source can hold
ParseOf == [m \in LoadMRs |-> _mr_to_triples(m)]
TriplesOf(line) == ParseOf[line.mr].val
Malformed(line) == ~ParseOf[line.mr].ok

\* number of elements of seq satisfying Test
Count(seq, Test(_)) == Cardinality({i \in 1..Len(seq) : Test(seq[i])})

\* the records of split s that reach the accumulator, in source order
KeptLines(s) ==
    SelectSeq(csv[s], LAMBDA l : ~(Corrupted(TriplesOf(l)) /\ s = "train"))

\* reference texts of the records of ls that parse to the TripleSet ts
LexsOf(ls, ts) ==
    LET match == SelectSeq(ls, LAMBDA l : TriplesOf(l) = ts)
    IN  [i \in 1..Len(match) |-> [text |-> match[i].text]]

\* position in ls of the first record that parses to the TripleSet ts
FirstSeen(ls, ts) == CHOOSE i \in 1..Len(ls) :
    TriplesOf(ls[i]) = ts /\ \A j \in 1..(i - 1) : TriplesOf(ls[j]) # ts

RECURSIVE SumLens(_)
SumLens(seqs) == IF seqs = <<>> THEN 0 ELSE Len(Head(seqs)) + SumLens(Tail(seqs))

\* number of lexicalizations held by the entries of split s
NumLexs(s) == SumLens([i \in 1..Len(data[s]) |-> data[s][i].lexs])

\* number of lexicalizations with text t held by the entries of split s
NumText(s, t) ==
    SumLens([i \in 1..Len(data[s]) |->
                SelectSeq(data[s][i].lexs, LAMBDA lex : lex.text = t)])

LoadedE2E(s) == cls = "e2e" /\ phase[s] = "loaded"

\* C3: a malformed attribute-string record never aborts the load of its
\* split: once such a record was read the load has not raised, the record
\* is counted in the error count of the split, and a loaded split has
\* exactly one aggregate warning.
C3_MalformedNeverAborts ==
    \A s \in SplitNames :
        (cls = "e2e" /\ \E i \in 1..Len(csv[s]) : Malformed(csv[s][i])) =>
            /\ pc # "raised"
            /\ phase[s] = "loading" => err >= Count(csv[s], Malformed)
            /\ phase[s] = "loaded" =>
                  Count(log, LAMBDA w : w.split = s) = 1

\* C5: after a split is loaded by E2E.load_from_dir no two of its Entries
\* have equal TripleSets, the Entries are in the order their TripleSet was
\* first seen, every kept record's TripleSet has an Entry, and each Entry
\* holds exactly the reference texts of the kept records that parsed to its
\* TripleSet, in encounter order; a TripleSet with the same triples in
\* another order is another Entry.
C5_Grouping ==
    \A s \in SplitNames : LoadedE2E(s) =>
        LET kept == KeptLines(s)
            es == data[s]
        IN  /\ \A i, j \in 1..Len(es) : i # j => es[i].triples # es[j].triples
            /\ \A k \in 1..Len(kept) : \E i \in 1..Len(es) : es[i].triples = TriplesOf(kept[k])
            /\ \A i \in 1..Len(es) :
                  /\ es[i].lexs # <<>>
                  /\ es[i].lexs = LexsOf(kept, es[i].triples)
            /\ \A i, j \in 1..Len(es) :
                  i < j => FirstSeen(kept, es[i].triples) < FirstSeen(kept, es[j].triples)

SameTriples(a, b) ==
    /\ Len(a) = Len(b)
    /\ {a[i] : i \in 1..Len(a)} = {b[i] : i \in 1..Len(b)}

C5_Witness ==
    \E s \in SplitNames :
        /\ LoadedE2E(s)
        /\ Len(data[s]) = 2
        /\ data[s][1].triples # data[s][2].triples
        /\ SameTriples(data[s][1].triples, data[s][2].triples)
        /\ \E i \in 1..2 : data[s][i].lexs = <<[text |-> "t2"], [text |-> "t1"]>>

\* C6: in every loaded split the error count is the number of records whose
\* TripleSet has length 0 or 1; in train those records are dropped (no Entry
\* has such a TripleSet and the lexicalizations are those of the other
\* records); in dev and test they are kept: the lexicalizations are as many
\* as the data rows and hold each reference text as often as the rows do.
C6_CorruptedCountedDroppedInTrainOnly ==
    \A s \in SplitNames : LoadedE2E(s) =>
        LET bad == Count(csv[s], LAMBDA l : Len(TriplesOf(l)) <= 1)
        IN  /\ \E k \in 1..Len(log) : log[k] = [split |-> s, err |-> bad]
            /\ s = "train" =>
                  /\ \A i \in 1..Len(data[s]) : Len(data[s][i].triples) >= 2
                  /\ NumLexs(s) = Len(csv[s]) - bad
            /\ s # "train" =>
                  /\ NumLexs(s) = Len(csv[s])
                  /\ \A t \in Texts :
                        NumText(s, t) = Count(csv[s], LAMBDA l : l.text = t)

C6_Witness ==
    /\ LoadedE2E("train")
    /\ LoadedE2E("dev")
    /\ \E i \in 1..Len(csv["train"]) : Len(TriplesOf(csv["train"][i])) = 1
    /\ data["train"] = <<>>
    /\ \E i \in 1..Len(data["dev"]) : data["dev"][i].triples = <<>>
    /\ \E i \in 1..Len(data["dev"]) : Len(data["dev"][i].triples) = 1

\* C10, state part: the splits before the current one are loaded and the
\* splits after it are untouched, in the order given; a loaded E2E split
\* holds only lexicalizations of its own records.
C10_Inv ==
    /\ \A k \in 1..Len(splits) :
          phase[splits[k]] = IF k < si THEN "loaded"
                             ELSE IF k = si /\ pc \in {"rows", "raised"} THEN "loading"
                             ELSE "not-loaded"
    /\ \A s \in SplitNames :
          /\ phase[s] = "not-loaded" => data[s] = <<>> /\ csv[s] = <<>>
          /\ LoadedE2E(s) =>
                /\ NumLexs(s) <= Len(csv[s])
                /\ \A i \in 1..Len(data[s]) :
                      data[s][i].lexs = LexsOf(KeptLines(s), data[s][i].triples)

\* C10, step part: a step changes the collection of the current split only,
\* by appending, and reads records of the current split only.
C10_Step ==
    \A s \in SplitNames :
        /\ data'[s] # data[s] =>
              /\ pc = "rows" /\ s = split
              /\ Len(data'[s]) > Len(data[s])
              /\ SubSeq(data'[s], 1, Len(data[s])) = data[s]
        /\ csv'[s] # csv[s] => pc = "rows" /\ s = split
        /\ phase[s] = "loaded" => phase'[s] = "loaded"

\* C10: splits are loaded one after another in the order given, each
\* finished before the next begins; loading a split appends Entries to the
\* collection of that split only; the grouping accumulator does not cross
\* split boundaries.
C10_SplitIsolation == []C10_Inv /\ [][C10_Step]_vars

C10_Witness ==
    /\ LoadedE2E("train")
    /\ LoadedE2E("dev")
    /\ Len(data["train"]) = 1
    /\ Len(data["dev"]) = 1
    /\ data["train"][1].triples = data["dev"][1].triples
    /\ data["train"][1].lexs = <<[text |-> "t1"]>>
    /\ data["dev"][1].lexs = <<[text |-> "t2"]>>

====
